---- MODULE Spec2Model ----
(***************************************************************************)
(* Recent Changes Patrol gadget (src/src/rcp.js): preference resolution,   *)
(* the polling timer, the visibility handler, the list renderer and the    *)
(* settings dialog, as one state machine.                                  *)
(***************************************************************************)
EXTENDS Integers, Sequences, FiniteSets, TLC

(* ------------------------------ bounds -------------------------------- *)
\* Date.now() at page load, in seconds; any epoch time dwarfs a frequency.
StartTime == 1000
\* the clock advances in steps of TimeStep seconds, MaxTime seconds in all
TimeStep == 30
MaxTime == 60
\* number of api.get queries and of remote settings writes
MaxPolls == 2
MaxWrites == 2
\* longest change list a query returns
MaxBatch == 1

(* ------------------------- JavaScript objects ------------------------- *)
\* An object is a function from its own keys to their values.
EmptyObj == [k \in {} |-> 0]

Fields == {"origin", "quantity", "frequency", "newOnly", "namespace", "direction"}

\* the order in which getConf's defaultPrefs literal lists the keys
FieldOrder == <<"origin", "quantity", "frequency", "newOnly", "namespace", "direction">>

\* Object.assign( target, source ): the source's own keys overwrite.
ObjectAssign(target, source) ==
  [k \in (DOMAIN target) \cup (DOMAIN source) |->
     IF k \in DOMAIN source THEN source[k] ELSE target[k]]

(* ------------------------------ JSON text ----------------------------- *)
\* A text is a sequence of tokens; the user option is a text or null.
LBrace == [t |-> "{"]
RBrace == [t |-> "}"]
Comma == [t |-> ","]
Member(k, v) == [t |-> "member", k |-> k, v |-> v]

NullValue == [kind |-> "null"]
Text(toks) == [kind |-> "text", toks |-> toks]

RECURSIVE MembersText(_, _, _)
\* the members of obj whose keys are order[i..], comma separated
MembersText(obj, order, first) ==
  IF order = <<>> THEN <<>>
  ELSE IF Head(order) \in DOMAIN obj
       THEN (IF first THEN <<>> ELSE <<Comma>>)
            \o <<Member(Head(order), obj[Head(order)])>>
            \o MembersText(obj, Tail(order), FALSE)
       ELSE MembersText(obj, Tail(order), first)

\* JSON.stringify( obj ) of a preferences object
JSONstringify(obj) == Text(<<LBrace>> \o MembersText(obj, FieldOrder, TRUE) \o <<RBrace>>)

RECURSIVE ParseMembers(_, _, _)
\* parse  member (, member)* }  after the opening brace; acc is the object so far
ParseMembers(toks, acc, needMember) ==
  IF toks = <<>> THEN [ok |-> FALSE]
  ELSE LET h == Head(toks) IN
    IF needMember
    THEN IF h.t = "member"
         THEN ParseMembers(Tail(toks), ObjectAssign(acc, (h.k :> h.v)), FALSE)
         ELSE [ok |-> FALSE]
    ELSE IF h.t = "}" THEN (IF Len(toks) = 1 THEN [ok |-> TRUE, val |-> acc] ELSE [ok |-> FALSE])
         ELSE IF h.t = "," THEN ParseMembers(Tail(toks), acc, TRUE)
         ELSE [ok |-> FALSE]

\* JSON.parse( value ): null parses to null, a malformed text throws SyntaxError
JSONparse(value) ==
  IF value.kind = "null" THEN [ok |-> TRUE, isNull |-> TRUE, val |-> EmptyObj]
  ELSE LET toks == value.toks IN
    IF toks = <<>> \/ Head(toks).t # "{" THEN [ok |-> FALSE]
    ELSE IF Len(toks) = 2 /\ toks[2].t = "}" THEN [ok |-> TRUE, isNull |-> FALSE, val |-> EmptyObj]
    ELSE LET r == ParseMembers(Tail(toks), EmptyObj, TRUE) IN
      IF r.ok THEN [ok |-> TRUE, isNull |-> FALSE, val |-> r.val] ELSE [ok |-> FALSE]

(* ------------------------------- state -------------------------------- *)
VARIABLES
  phase,           \* "init" before the script body ran, "running" after it, "crashed" if it threw
  hidden,          \* document.hidden
  now,             \* the clock, in seconds
  lastCheckedTime, \* let lastCheckedTime (ms)
  intervalId,      \* let intervalId; 0 is undefined
  timers,          \* the browser's active repeating timers: [id, period, due] (ms)
  conf,            \* the object require( './rcp-config.json' ) yields
  stored,          \* mw.user.options.get( 'userjs-rcp' )
  requests,        \* api.get queries in flight: [id, initial]
  nextReq,         \* the id of the next query
  list,            \* the entries of #p-unpatrolled ul, in order
  pending,         \* the list carries oo-ui-pendingElement-pending
  dialog,          \* an EditRcpDialog is open
  newPrefs,        \* the open dialog's newPrefs patch
  selectedNewOnly, \* the state of the open dialog's newOnly checkbox
  writes,          \* the remote option writes issued, in order: [status, and while
                   \* pending the optionvalue posted and dialogOpen: the dialog that
                   \* issued it is still open]
  notifications,   \* number of mw.notify error notifications shown
  ret,             \* the value the last direct call of a function returned
  arg,             \* the argument of that direct call
  mwConfig         \* mw.config: skin, wgContentNamespaces, wgNamespaceIds

vars == <<phase, hidden, now, lastCheckedTime, intervalId, timers, conf,
          stored, requests, nextReq, list, pending, dialog, newPrefs,
          selectedNewOnly, writes, notifications, ret, arg, mwConfig>>

schedVars == <<lastCheckedTime, intervalId, timers, requests, nextReq, pending>>
dialogVars == <<dialog, newPrefs, selectedNewOnly>>

\* Date.now(), in milliseconds
DateNow == now * 1000

(* ---------------------------- configuration --------------------------- *)
\* getConf's defaultConf literal
DefaultConf ==
  [dangerousTags |-> <<"mw-blank", "mw-changed-redirect-target", "mw-manual-revert",
                       "mw-replace", "mw-undo">>,
   defaultPrefs |-> [origin |-> "recentchanges", quantity |-> 10, frequency |-> 60,
                     newOnly |-> FALSE, namespace |-> "all", direction |-> "older"]]

\* a site's rcp-config.json that sets its own defaultPrefs
SitePrefs == [origin |-> "watchlist", quantity |-> 5, frequency |-> 30,
              newOnly |-> TRUE, namespace |-> "content", direction |-> "newer"]

\* the rcp-config.json files considered: none (or empty), and one with defaultPrefs
Confs == {EmptyObj, [defaultPrefs |-> SitePrefs]}

\* getConf(): the site's keys replace the built-in ones
getConfOf(cf) == ObjectAssign(DefaultConf, cf)

getConf == getConfOf(conf)

(* ----------------------------- preferences ---------------------------- *)
\* getPreferences with the layers applied in the wrong order (stored over the override)
getPreferencesOf_storedWins(cf, st, override) ==
  LET parsed == JSONparse(st) IN
  IF ~parsed.ok THEN [ok |-> FALSE]
  ELSE [ok |-> TRUE,
        val |-> ObjectAssign(ObjectAssign(ObjectAssign(EmptyObj, getConfOf(cf).defaultPrefs),
                                          override), parsed.val)]

\* getPreferences( newPrefs ) against a given configuration and stored option;
\* ok = FALSE is the SyntaxError JSON.parse throws
getPreferencesOf(cf, st, override) ==
  LET parsed == JSONparse(st) IN
  IF ~parsed.ok THEN [ok |-> FALSE]
  ELSE LET userPrefs == IF parsed.isNull THEN EmptyObj ELSE parsed.val
           prefs1 == ObjectAssign(EmptyObj, getConfOf(cf).defaultPrefs)
           prefs2 == ObjectAssign(prefs1, userPrefs)
           prefs3 == ObjectAssign(prefs2, override)
       IN [ok |-> TRUE, val |-> prefs3]

getPreferences(override) == getPreferencesOf(conf, stored, override)

(* ------------------------------ the poll ------------------------------ *)
\* what a call leaves of the poll state when it changes nothing
SamePoll(thrown) ==
  [thrown |-> thrown, requests |-> requests, nextReq |-> nextReq,
   lastCheckedTime |-> lastCheckedTime, pending |-> pending]

\* a poll that abandons the queries still in flight when it issues its own
IssueQuery_cancelsEarlier(initial) ==
  LET p == getPreferences(EmptyObj) IN
  IF ~p.ok THEN SamePoll(TRUE)
  ELSE [thrown |-> FALSE,
        requests |-> {[id |-> nextReq, initial |-> initial]},
        nextReq |-> nextReq + 1,
        lastCheckedTime |-> DateNow,
        pending |-> IF initial THEN pending ELSE TRUE]

\* populateList( initial ) past its guard: getPreferences, the pending class,
\* getUnpatrolled (which records lastCheckedTime and issues api.get)
IssueQuery(initial) ==
  LET p == getPreferences(EmptyObj) IN
  IF ~p.ok THEN SamePoll(TRUE)
  ELSE [thrown |-> FALSE,
        requests |-> requests \cup {[id |-> nextReq, initial |-> initial]},
        nextReq |-> nextReq + 1,
        lastCheckedTime |-> DateNow,
        pending |-> IF initial THEN pending ELSE TRUE]

\* populateList without its document.hidden guard
populateListAt_noHiddenCheck(h, initial) == IssueQuery(initial)

\* populateList with its guard inverted: it returns when the surface is visible
populateListAt_invertedCheck(h, initial) ==
  IF ~h THEN SamePoll(FALSE) ELSE IssueQuery(initial)

\* populateList( initial ) called while document.hidden = h, up to the point
\* the query is in flight: the poll state it leaves
populateListAt(h, initial) ==
  IF h THEN SamePoll(FALSE) ELSE IssueQuery(initial)

populateList(initial) == populateListAt(hidden, initial)

\* the id setInterval returns when the timers in active are running: a
\* positive integer that none of them has (the least one)
FreshTimerId(active) ==
  CHOOSE i \in 1..(Cardinality(active) + 1) :
    /\ \A t \in active : t.id # i
    /\ \A j \in 1..(i - 1) : \E t \in active : t.id = j

\* setInterval( populateList, frequency * 1000 ) with the timers in active
\* running: the timer it creates
NewTimer(active, frequency) ==
  [id |-> FreshTimerId(active), period |-> frequency * 1000,
   due |-> DateNow + frequency * 1000]

\* clearInterval that cancels nothing
clearInterval_nothing(id) == timers

\* clearInterval( id ): an unknown or undefined id cancels nothing
clearInterval(id) == {t \in timers : t.id # id}

\* refreshList that arms the new timer at the built-in default frequency
refreshListAt_defaultPeriod(h) ==
  LET cleared == clearInterval(intervalId)
      pop == populateListAt(h, FALSE)
      p == getPreferences(EmptyObj)
  IN IF pop.thrown \/ ~p.ok
     THEN [thrown |-> TRUE, pop |-> pop, timers |-> cleared, intervalId |-> intervalId]
     ELSE [thrown |-> FALSE, pop |-> pop,
           timers |-> cleared \cup {NewTimer(cleared, DefaultConf.defaultPrefs.frequency)},
           intervalId |-> FreshTimerId(cleared)]

\* refreshList() called while document.hidden = h: cancel, poll, arm.
\* A throw leaves what was done before it.
refreshListAt(h) ==
  LET cleared == clearInterval(intervalId)
      pop == populateListAt(h, FALSE)
      p == getPreferences(EmptyObj)
  IN IF pop.thrown \/ ~p.ok
     THEN [thrown |-> TRUE, pop |-> pop, timers |-> cleared, intervalId |-> intervalId]
     ELSE [thrown |-> FALSE, pop |-> pop,
           timers |-> cleared \cup {NewTimer(cleared, p.val.frequency)},
           intervalId |-> FreshTimerId(cleared)]

refreshList == refreshListAt(hidden)

\* the poll state after a call that returned pop
SetPoll(pop) ==
  /\ requests' = pop.requests
  /\ nextReq' = pop.nextReq
  /\ lastCheckedTime' = pop.lastCheckedTime
  /\ pending' = pop.pending

\* the scheduler state after refreshList returned r
SetRefresh(r) ==
  /\ SetPoll(r.pop)
  /\ timers' = r.timers
  /\ intervalId' = r.intervalId

\* the query counter leaves room for one more query
CanPoll == nextReq <= MaxPolls

(* ------------------------------- startup ------------------------------ *)
\* the script body: addOptionsButton, populateList( true ), setInterval, addEventListener
Startup ==
  /\ phase = "init"
  /\ LET pop == populateList(TRUE)
         p == getPreferences(EmptyObj)
     IN IF pop.thrown \/ ~p.ok
        THEN /\ phase' = "crashed"
             /\ SetPoll(pop)
             /\ UNCHANGED <<timers, intervalId>>
        ELSE /\ phase' = "running"
             /\ SetPoll(pop)
             /\ timers' = timers \cup {NewTimer(timers, p.val.frequency)}
             /\ intervalId' = FreshTimerId(timers)
  /\ UNCHANGED <<hidden, now, conf, stored, list, dialogVars, writes, notifications, ret, arg, mwConfig>>

\* a timer fires: populateList() with no argument
Tick(t) ==
  /\ t \in timers
  /\ DateNow >= t.due
  /\ hidden \/ CanPoll
  /\ SetPoll(populateList(FALSE))
  /\ timers' = (timers \ {t}) \cup {[t EXCEPT !.due = DateNow + t.period]}
  /\ UNCHANGED <<phase, hidden, now, intervalId, conf, stored, list,
                 dialogVars, writes, notifications, ret, arg, mwConfig>>

\* the clock advances, once the timers that are due have fired
AdvanceTime ==
  /\ phase # "init"
  /\ \A t \in timers : DateNow < t.due
  /\ now + TimeStep <= StartTime + MaxTime
  /\ now' = now + TimeStep
  /\ UNCHANGED <<phase, hidden, schedVars, conf, stored, list, dialogVars, writes,
                 notifications, ret, arg, mwConfig>>

(* ----------------------------- visibility ----------------------------- *)
\* the listener without the comparison of the elapsed time
visibilityListener_noElapsedCheck(h) ==
  IF h THEN [ran |-> FALSE]
  ELSE IF getPreferences(EmptyObj).ok THEN [ran |-> TRUE, r |-> refreshListAt(h)]
       ELSE [ran |-> FALSE]

\* the visibilitychange listener, run with document.hidden = h
visibilityListener(h) ==
  IF h THEN [ran |-> FALSE]
  ELSE LET p == getPreferences(EmptyObj) IN
    IF p.ok /\ DateNow - lastCheckedTime > p.val.frequency * 1000
    THEN [ran |-> TRUE, r |-> refreshListAt(h)]
    ELSE [ran |-> FALSE]

\* the surface is hidden; the listener, if registered, returns at once
BecomeHidden ==
  /\ phase # "init"
  /\ ~hidden
  /\ hidden' = TRUE
  /\ UNCHANGED <<phase, now, schedVars, conf, stored, list, dialogVars, writes,
                 notifications, ret, arg, mwConfig>>

\* the surface is shown; the listener is registered only if the script body completed
BecomeVisible ==
  /\ phase # "init"
  /\ hidden
  /\ CanPoll
  /\ hidden' = FALSE
  /\ LET v == IF phase = "running" THEN visibilityListener(FALSE) ELSE [ran |-> FALSE]
     IN IF v.ran
        THEN SetRefresh(v.r)
        ELSE UNCHANGED schedVars
  /\ UNCHANGED <<phase, now, conf, stored, list, dialogVars, writes, notifications, ret, arg, mwConfig>>

(* ------------------------------ rendering ----------------------------- *)
\* the portlet link createPortletEntry adds for the i-th change of query q
Entry(q, i) == [kind |-> "change", poll |-> q, idx |-> i]

\* the n-userjs-rcp-emptylist placeholder added for query q
Placeholder(q) == [kind |-> "empty", poll |-> q, idx |-> 0]

\* the .done callback of populateList for request r, whose change list has n items
Render(r, n) ==
  LET base == IF r.initial THEN list ELSE <<>>
  IN [list |-> base \o (IF n = 0 THEN <<Placeholder(r.id)>>
                        ELSE [i \in 1..n |-> Entry(r.id, i)]),
      pending |-> IF r.initial THEN pending ELSE FALSE]

\* a query resolves with n changes
FetchDone(r, n) ==
  /\ r \in requests
  /\ requests' = requests \ {r}
  /\ list' = Render(r, n).list
  /\ pending' = Render(r, n).pending
  /\ UNCHANGED <<phase, hidden, now, lastCheckedTime, intervalId, timers,
                 nextReq, conf, stored, dialogVars, writes, notifications, ret, arg, mwConfig>>

\* a query fails: the .fail callback logs to the console
FetchFail(r) ==
  /\ r \in requests
  /\ requests' = requests \ {r}
  /\ UNCHANGED <<phase, hidden, now, lastCheckedTime, intervalId, timers,
                 nextReq, pending, list, conf, stored, dialogVars, writes,
                 notifications, ret, arg, mwConfig>>

(* --------------------------- settings dialog -------------------------- *)
\* optionsDialog: a click on the options button opens a new dialog, whose
\* initialize reads the preferences and starts an empty patch
OpenDialog ==
  /\ phase # "init"
  /\ ~dialog
  /\ getPreferences(EmptyObj).ok
  /\ dialog' = TRUE
  /\ newPrefs' = EmptyObj
  /\ selectedNewOnly' = getPreferences(EmptyObj).val.newOnly
  /\ UNCHANGED <<phase, hidden, now, schedVars, conf, stored, list, writes,
                 notifications, ret, arg, mwConfig>>

\* the writes once the open dialog is closed: none belongs to an open dialog
Orphaned(ws) == [i \in 1..Len(ws) |-> [ws[i] EXCEPT !.dialogOpen = FALSE]]

\* write i once it has resolved: the request is gone, its outcome remains
Resolved(ws, i, outcome) ==
  [ws EXCEPT ![i] = [optionvalue |-> NullValue, dialogOpen |-> FALSE, status |-> outcome]]

\* the close button: the action without a name closes the dialog
CancelDialog ==
  /\ dialog
  /\ dialog' = FALSE
  /\ newPrefs' = EmptyObj
  /\ selectedNewOnly' = FALSE
  /\ writes' = Orphaned(writes)
  /\ UNCHANGED <<phase, hidden, now, schedVars, conf, stored, list, notifications, ret, arg, mwConfig>>

\* the widgets' choose and change handlers: the patch after the user gives
\* field f the value v (for newOnly, v is the checkbox's new state)
OnChange(patch, f, v) ==
  CASE f \in {"origin", "namespace", "direction"} -> ObjectAssign(patch, f :> v)
    [] f = "newOnly" -> IF v THEN ObjectAssign(patch, f :> TRUE) ELSE patch
    [] f = "quantity" -> IF v >= 1 /\ v <= 20 THEN ObjectAssign(patch, f :> v) ELSE patch
    [] f = "frequency" -> IF v >= 30 /\ v <= 600 THEN ObjectAssign(patch, f :> v) ELSE patch

\* the user changes one widget of the open dialog
DialogChange(f, v) ==
  /\ dialog
  /\ f = "newOnly" => v = ~selectedNewOnly
  /\ newPrefs' = OnChange(newPrefs, f, v)
  /\ selectedNewOnly' = IF f = "newOnly" THEN v ELSE selectedNewOnly
  /\ UNCHANGED <<phase, hidden, now, schedVars, conf, stored, list, dialog,
                 writes, notifications, ret, arg, mwConfig>>

\* the action handler that saves the merged preferences even on reset
ActionOptions_noReset(action, merged) == merged

\* getActionProcess: the options object the action persists
ActionOptions(action, merged) == IF action = "reset" THEN EmptyObj ELSE merged

\* setPreferences that only posts the remote write
setPreferences_remoteOnly(options) ==
  [stored |-> stored,
   write |-> [optionvalue |-> JSONstringify(options), dialogOpen |-> TRUE, status |-> "pending"]]

\* setPreferences( options ): the local option set, and the remote write posted
setPreferences(options) ==
  [stored |-> JSONstringify(options),
   write |-> [optionvalue |-> JSONstringify(options), dialogOpen |-> TRUE, status |-> "pending"]]

\* getActionProcess( action ) for action save or reset, up to the posted write
ActionProcess(action) ==
  /\ dialog
  /\ Len(writes) < MaxWrites
  /\ LET merged == getPreferences(newPrefs) IN
     IF ~merged.ok THEN UNCHANGED <<stored, writes>>
     ELSE LET set == setPreferences(ActionOptions(action, merged.val)) IN
          /\ stored' = set.stored
          /\ writes' = Append(writes, set.write)
  /\ UNCHANGED <<phase, hidden, now, schedVars, conf, list, dialogVars, notifications, ret, arg, mwConfig>>

\* a .then callback that only closes the dialog
OnWriteSuccess_noRestart(h) ==
  [thrown |-> FALSE, pop |-> SamePoll(FALSE), timers |-> timers, intervalId |-> intervalId]

\* the .then callback of getActionProcess, past dialog.close(): refreshList()
OnWriteSuccess(h) == refreshListAt(h)

\* the remote write i succeeds: dialog.close(), refreshList(); a throw in the
\* callback rejects the chained promise, whose .fail handler notifies
WriteDone(i) ==
  /\ i \in 1..Len(writes)
  /\ writes[i].status = "pending"
  /\ CanPoll
  /\ writes' = IF writes[i].dialogOpen
               THEN Orphaned(Resolved(writes, i, "ok"))
               ELSE Resolved(writes, i, "ok")
  /\ dialog' = IF writes[i].dialogOpen THEN FALSE ELSE dialog
  /\ newPrefs' = IF writes[i].dialogOpen THEN EmptyObj ELSE newPrefs
  /\ selectedNewOnly' = IF writes[i].dialogOpen THEN FALSE ELSE selectedNewOnly
  /\ LET r == OnWriteSuccess(hidden) IN
     /\ SetRefresh(r)
     /\ notifications' = IF r.thrown THEN notifications + 1 ELSE notifications
  /\ UNCHANGED <<phase, hidden, now, conf, stored, list, ret, arg, mwConfig>>

\* a .fail callback that also restarts the scheduler
OnWriteFailure_restarts(h) ==
  [notify |-> 1, r |-> refreshListAt(h)]

\* the .fail callback of getActionProcess: mw.notify, nothing else
OnWriteFailure(h) ==
  [notify |-> 1,
   r |-> [thrown |-> FALSE, pop |-> SamePoll(FALSE), timers |-> timers,
          intervalId |-> intervalId]]

\* the remote write i fails
WriteFail(i) ==
  /\ i \in 1..Len(writes)
  /\ writes[i].status = "pending"
  /\ writes' = Resolved(writes, i, "failed")
  /\ LET f == OnWriteFailure(hidden) IN
     /\ SetRefresh(f.r)
     /\ notifications' = notifications + f.notify
  /\ UNCHANGED <<phase, hidden, now, conf, stored, list, dialogVars, ret, arg, mwConfig>>

\* ret before any direct call
NotCalled == [called |-> FALSE]

\* arg when the call takes its argument from elsewhere
NoArg == [given |-> FALSE]

\* wgNamespaceIds, the raw namespace index, as its entries in order: a wiki
\* whose project and file namespaces have aliases
NamespaceIds ==
  << [name |-> "media", id |-> -2], [name |-> "special", id |-> -1],
     [name |-> "", id |-> 0], [name |-> "talk", id |-> 1],
     [name |-> "project", id |-> 4], [name |-> "wp", id |-> 4],
     [name |-> "project_talk", id |-> 5], [name |-> "file", id |-> 6],
     [name |-> "image", id |-> 6], [name |-> "file_talk", id |-> 7] >>

\* mw.config of the page the script runs on
PageConfig == [skin |-> "vector", wgContentNamespaces |-> <<0>>, wgNamespaceIds |-> NamespaceIds]

(* --------------------------- the state machine ------------------------ *)
\* a persisted option that is not JSON: an unclosed brace
Malformed == Text(<<LBrace>>)

\* the persisted option at page load: absent, or not JSON
StartStored == {NullValue, Malformed}

\* the frequencies typed into the dialog; 20 is below the widget's minimum
FrequencyInputs == {20, 30}

\* the rcp-config.json of the page: none
StartConfs == {EmptyObj}

Init ==
  /\ phase = "init"
  /\ hidden \in BOOLEAN
  /\ now = StartTime
  /\ lastCheckedTime = 0
  /\ intervalId = 0
  /\ timers = {}
  /\ conf \in StartConfs
  /\ stored \in StartStored
  /\ requests = {}
  /\ nextReq = 1
  /\ list = <<>>
  /\ pending = FALSE
  /\ dialog = FALSE
  /\ newPrefs = EmptyObj
  /\ selectedNewOnly = FALSE
  /\ writes = <<>>
  /\ notifications = 0
  /\ ret = NotCalled
  /\ arg = NoArg
  /\ mwConfig = PageConfig

Next ==
  \/ Startup
  \/ \E t \in timers : Tick(t)
  \/ AdvanceTime
  \/ BecomeHidden
  \/ BecomeVisible
  \/ \E r \in requests : \E n \in 0..MaxBatch : FetchDone(r, n)
  \/ \E r \in requests : FetchFail(r)
  \/ OpenDialog
  \/ CancelDialog
  \/ \E v \in FrequencyInputs : DialogChange("frequency", v)
  \/ ActionProcess("save")
  \/ ActionProcess("reset")
  \/ \E i \in 1..Len(writes) : WriteDone(i)
  \/ \E i \in 1..Len(writes) : WriteFail(i)

Spec == Init /\ [][Next]_vars

(* ---------------- preference resolution as a function ----------------- *)
\* the value a persisted field holds when it is set
StoredValueOf(f) ==
  CASE f = "origin" -> "other"
    [] f = "quantity" -> 20
    [] f = "frequency" -> 600
    [] f = "newOnly" -> TRUE
    [] f = "namespace" -> "noncontent"
    [] f = "direction" -> "newer"

\* the values an override gives a field
OverrideValuesOf(f) ==
  CASE f = "origin" -> {"recentchanges", "watchlist"}
    [] f = "quantity" -> {1, 15}
    [] f = "frequency" -> {30, 120}
    [] f = "newOnly" -> BOOLEAN
    [] f = "namespace" -> {"all", "content"}
    [] f = "direction" -> {"older", "newer"}

RECURSIVE StoredObjects(_)
\* every object over a subset of the fields in order, each field at its stored value
StoredObjects(order) ==
  IF order = <<>> THEN {EmptyObj}
  ELSE LET rest == StoredObjects(Tail(order)) IN
       rest \cup {ObjectAssign(o, Head(order) :> StoredValueOf(Head(order))) : o \in rest}

RECURSIVE OverrideObjects(_)
\* every partial override over the fields in order
OverrideObjects(order) ==
  IF order = <<>> THEN {EmptyObj}
  ELSE LET rest == OverrideObjects(Tail(order)) IN
       rest \cup {ObjectAssign(o, Head(order) :> v) : o \in rest, v \in OverrideValuesOf(Head(order))}

\* the parseable persisted options: absent, or the text of an object
ParseableStored == {NullValue} \cup {JSONstringify(o) : o \in StoredObjects(FieldOrder)}

\* texts that are not JSON: the empty string, an unclosed object, a dangling comma
MalformedStored ==
  {Text(<<>>), Malformed, Text(<<LBrace, Member("frequency", 600), Comma, RBrace>>)}

\* getPreferences( newPrefs ) called directly
CallGetPreferences ==
  /\ ~ret.called
  /\ ret' = [called |-> TRUE, result |-> getPreferences(newPrefs)]
  /\ UNCHANGED <<phase, hidden, now, schedVars, conf, stored, list, dialogVars, writes,
                 notifications, arg, mwConfig>>

InitPrefs ==
  /\ phase = "init"
  /\ hidden = FALSE
  /\ now = StartTime
  /\ lastCheckedTime = 0
  /\ intervalId = 0
  /\ timers = {}
  /\ conf \in Confs
  /\ stored \in ParseableStored \cup MalformedStored
  /\ requests = {}
  /\ nextReq = 1
  /\ list = <<>>
  /\ pending = FALSE
  /\ dialog = FALSE
  /\ newPrefs \in OverrideObjects(FieldOrder)
  /\ selectedNewOnly = FALSE
  /\ writes = <<>>
  /\ notifications = 0
  /\ ret = NotCalled
  /\ arg = NoArg
  /\ mwConfig = PageConfig

NextPrefs == CallGetPreferences

SpecPrefs == InitPrefs /\ [][NextPrefs]_vars

(* ------------------- JavaScript numbers and strings ------------------- *)
\* a number value; NaN is the number that compares false with everything
NumberValue(n) == [type |-> "number", nan |-> FALSE, n |-> n]
NaN == [type |-> "number", nan |-> TRUE, n |-> 0]

\* the sign characters the source's string literals hold: '+' is U+002B, the
\* other is U+2212 MINUS SIGN, not the hyphen-minus U+002D of numeric literals
PlusSign == "U+002B"
MinusSign == "U+2212"
HyphenMinus == "U+002D"

\* the string  sign + n.toString()  for a number n >= 0
SignedText(sign, n) == [type |-> "string", sign |-> sign, digits |-> n]

\* ToNumber( v ): a string converts by the numeric-literal grammar, whose only
\* signs are U+002B and U+002D; any other text gives NaN
ToNumber(v) ==
  IF v.type = "number" THEN v
  ELSE IF v.sign = PlusSign THEN NumberValue(v.digits)
  ELSE IF v.sign = HyphenMinus THEN NumberValue(0 - v.digits)
  ELSE NaN

\* Math.abs( v ): converts its argument to a number first
MathAbs(v) ==
  LET x == ToNumber(v) IN
  IF x.nan THEN NaN ELSE NumberValue(IF x.n < 0 THEN 0 - x.n ELSE x.n)

\* x >= n for a number value x: false when x is NaN
GreaterOrEqual(x, n) == ~x.nan /\ x.n >= n

(* ----------------------- createPortletEntry( data ) ------------------- *)
\* b.includes( x ) for an array b
Includes(b, x) == \E j \in 1..Len(b) : b[j] = x

\* the portlet link createPortletEntry( data ) builds, with configuration cf
\* and mw.config cfg: its target, its classes in the order they are pushed,
\* the diff size attribute, the indicators, and the skin's decoration
createPortletEntry(data, cf, cfg) ==
  LET diff == data.newlen - data.oldlen
      classes1 == <<"userjs-rcp-item">>
      classes2 == IF diff > 0 THEN Append(classes1, "userjs-rcp-diff-positive")
                  ELSE IF diff < 0 THEN Append(classes1, "userjs-rcp-diff-negative")
                  ELSE classes1
      sizeDiff == IF diff > 0 THEN SignedText(PlusSign, diff)
                  ELSE IF diff < 0 THEN SignedText(MinusSign, MathAbs(NumberValue(diff)).n)
                  ELSE NumberValue(diff)
      classes3 == IF GreaterOrEqual(MathAbs(sizeDiff), 500)
                  THEN Append(classes2, "userjs-rcp-diff-large") ELSE classes2
      isNew == data.type = "new"
      classes4 == IF isNew THEN Append(classes3, "userjs-rcp-item-new") ELSE classes3
      dangerous == SelectSeq(getConfOf(cf).dangerousTags, LAMBDA tag : Includes(data.tags, tag))
      highlight == Len(dangerous) # 0
      classes5 == IF highlight THEN Append(classes4, "userjs-rcp-item-highlight") ELSE classes4
      minerva == cfg.skin = "minerva"
  IN [kind |-> "change",
      label |-> data.title,
      url |-> [title |-> data.title, oldid |-> "prev", diff |-> data.revid],
      classes |-> IF minerva THEN Append(classes5, "toggle-list-item") ELSE classes5,
      diffsize |-> sizeDiff,
      indicatorNew |-> isNew,
      indicatorHighlight |-> highlight,
      timestampShown |-> ~minerva,
      anchorTitle |-> minerva]

\* page sizes before and after a change
SizeInputs == {100, 101, 600, 700, 1100}

\* tag lists of a change
TagInputs == {<<>>, <<"mw-undo">>, <<"mobile edit", "mw-replace">>}

\* the change records the query interface hands to the renderer
ChangeRecords ==
  [title : {"Main Page"}, revid : {7}, timestamp : {"2024-12-27T00:00:00Z"},
   oldlen : SizeInputs, newlen : SizeInputs, tags : TagInputs, type : {"edit", "new"}]

\* createPortletEntry( data ) called directly: the link is added to the portlet
CallCreatePortletEntry ==
  /\ ~ret.called
  /\ arg.given
  /\ LET item == createPortletEntry(arg.data, conf, mwConfig) IN
     /\ ret' = [called |-> TRUE, result |-> item]
     /\ list' = Append(list, item)
  /\ UNCHANGED <<phase, hidden, now, schedVars, conf, stored, dialogVars, writes,
                 notifications, arg, mwConfig>>

InitEntry ==
  /\ phase = "init"
  /\ hidden = FALSE
  /\ now = StartTime
  /\ lastCheckedTime = 0
  /\ intervalId = 0
  /\ timers = {}
  /\ conf \in StartConfs
  /\ stored = NullValue
  /\ requests = {}
  /\ nextReq = 1
  /\ list = <<>>
  /\ pending = FALSE
  /\ dialog = FALSE
  /\ newPrefs = EmptyObj
  /\ selectedNewOnly = FALSE
  /\ writes = <<>>
  /\ notifications = 0
  /\ ret = NotCalled
  /\ \E data \in ChangeRecords : arg = [given |-> TRUE, data |-> data]
  /\ \E skin \in {"vector", "minerva"} : mwConfig = [PageConfig EXCEPT !.skin = skin]

NextEntry == CallCreatePortletEntry

SpecEntry == InitEntry /\ [][NextEntry]_vars

(* ------------------------ getUnpatrolled( prefs ) --------------------- *)
\* getApiListType( origin ): the watchlist, or recent changes for anything else
getApiListType(origin) ==
  IF origin = "watchlist" THEN [list |-> "watchlist", prefix |-> "wl"]
  ELSE [list |-> "recentchanges", prefix |-> "rc"]

\* Object.values( o ) of an object given as its entries in order
ObjectValues(o) == [i \in 1..Len(o) |-> o[i].id]

RECURSIVE Uniq(_, _)
\* [ ...new Set( a ) ]: the elements of a in order of first occurrence; seen
\* is what the set holds so far
Uniq(a, seen) ==
  IF a = <<>> THEN <<>>
  ELSE IF Head(a) \in seen THEN Uniq(Tail(a), seen)
       ELSE <<Head(a)>> \o Uniq(Tail(a), seen \cup {Head(a)})

\* the non-content namespaces computed without the pass through a Set
NonContentNamespaces_noSet(cfg) ==
  SelectSeq(ObjectValues(cfg.wgNamespaceIds),
            LAMBDA ns : ~Includes(cfg.wgContentNamespaces, ns))

\* lines 148-151: the values of the index, without repetition, that the
\* content namespaces do not include
NonContentNamespaces(cfg) ==
  SelectSeq(Uniq(ObjectValues(cfg.wgNamespaceIds), {}),
            LAMBDA ns : ~Includes(cfg.wgContentNamespaces, ns))

\* the request object getUnpatrolled( prefs ) passes to api.get, under mw.config cfg
getUnpatrolled(prefs, cfg) ==
  LET listType == getApiListType(prefs.origin)
      editType == IF prefs.newOnly THEN "new" ELSE <<"edit", "new">>
      request ==
        ("action" :> "query") @@ ("list" :> listType.list) @@ ("format" :> "json")
        @@ ("formatversion" :> 2)
        @@ ((listType.prefix \o "show") :> "!patrolled")
        @@ ((listType.prefix \o "type") :> editType)
        @@ ((listType.prefix \o "prop") :> <<"title", "timestamp", "ids", "sizes", "tags">>)
        @@ ((listType.prefix \o "dir") :> prefs.direction)
        @@ ((listType.prefix \o "limit") :> prefs.quantity)
        @@ ("maxage" :> prefs.frequency) @@ ("smaxage" :> prefs.frequency)
  IN IF prefs.namespace = "content"
     THEN ((listType.prefix \o "namespace") :> cfg.wgContentNamespaces) @@ request
     ELSE IF prefs.namespace = "noncontent"
     THEN ((listType.prefix \o "namespace") :> NonContentNamespaces(cfg)) @@ request
     ELSE request

\* the preferences a query is built from
QueryPrefs ==
  [origin : {"recentchanges", "watchlist", "other"}, quantity : {10}, frequency : {60},
   newOnly : BOOLEAN, namespace : {"all", "content", "noncontent"},
   direction : {"older", "newer"}]

\* wgContentNamespaces of a page: none, the main namespace, several, and one
\* the index does not list
ContentNamespaceInputs == {<<>>, <<0>>, <<0, 4, 6>>, <<0, 100>>}

\* raw namespace indexes: the aliased one, and one without aliases
NamespaceIdInputs == {NamespaceIds, SubSeq(NamespaceIds, 1, 4)}

\* getUnpatrolled( prefs ) called directly: lastCheckedTime is recorded and
\* the request goes to api.get, which leaves one more query in flight (it is
\* no initial poll's: the caller attaches no callback); ret holds the request sent
CallGetUnpatrolled ==
  /\ ~ret.called
  /\ arg.given
  /\ ret' = [called |-> TRUE, result |-> getUnpatrolled(arg.prefs, mwConfig)]
  /\ lastCheckedTime' = DateNow
  /\ requests' = requests \cup {[id |-> nextReq, initial |-> FALSE]}
  /\ nextReq' = nextReq + 1
  /\ UNCHANGED <<phase, hidden, now, intervalId, timers, pending,
                 conf, stored, list, dialogVars, writes, notifications, arg, mwConfig>>

InitQuery ==
  /\ phase = "init"
  /\ hidden = FALSE
  /\ now = StartTime
  /\ lastCheckedTime = 0
  /\ intervalId = 0
  /\ timers = {}
  /\ conf \in StartConfs
  /\ stored = NullValue
  /\ requests = {}
  /\ nextReq = 1
  /\ list = <<>>
  /\ pending = FALSE
  /\ dialog = FALSE
  /\ newPrefs = EmptyObj
  /\ selectedNewOnly = FALSE
  /\ writes = <<>>
  /\ notifications = 0
  /\ ret = NotCalled
  /\ \E prefs \in QueryPrefs : arg = [given |-> TRUE, prefs |-> prefs]
  /\ \E c \in ContentNamespaceInputs, a \in NamespaceIdInputs :
       mwConfig = [PageConfig EXCEPT !.wgContentNamespaces = c, !.wgNamespaceIds = a]

NextQuery == CallGetUnpatrolled

SpecQuery == InitQuery /\ [][NextQuery]_vars

(* ------------------- the settings dialog on its own ------------------- *)
\* what the user can give each widget: the options of the button groups, the
\* two states of the checkbox, and numbers at and beyond the inputs' limits
DialogInputs(f) ==
  CASE f = "origin" -> {"recentchanges", "watchlist"}
    [] f = "namespace" -> {"all", "content", "noncontent"}
    [] f = "direction" -> {"older", "newer"}
    [] f = "newOnly" -> BOOLEAN
    [] f = "quantity" -> {0, 1, 20, 21}
    [] f = "frequency" -> {29, 30, 600, 601}

\* the persisted option of a user who checked newOnly before
NewOnlyStored == JSONstringify([newOnly |-> TRUE])

InitDialog ==
  /\ phase = "init"
  /\ hidden \in BOOLEAN
  /\ now = StartTime
  /\ lastCheckedTime = 0
  /\ intervalId = 0
  /\ timers = {}
  /\ conf \in StartConfs
  /\ stored \in {NullValue, NewOnlyStored}
  /\ requests = {}
  /\ nextReq = 1
  /\ list = <<>>
  /\ pending = FALSE
  /\ dialog = FALSE
  /\ newPrefs = EmptyObj
  /\ selectedNewOnly = FALSE
  /\ writes = <<>>
  /\ notifications = 0
  /\ ret = NotCalled
  /\ arg = NoArg
  /\ mwConfig = PageConfig

\* the page is loaded, the dialog opened, edited and closed without saving
NextDialog ==
  \/ Startup
  \/ OpenDialog
  \/ CancelDialog
  \/ \E f \in Fields : \E v \in DialogInputs(f) : DialogChange(f, v)

SpecDialog == InitDialog /\ [][NextDialog]_vars

(* ------------------------------- claims ------------------------------- *)
\* the site's default preferences, read off the configuration file
SiteDefaults(cf) ==
  IF "defaultPrefs" \in DOMAIN cf THEN cf.defaultPrefs ELSE DefaultConf.defaultPrefs

\* the frequency getPreferences() returns now
CurrentFrequency == getPreferences(EmptyObj).val.frequency

\* the one timer a restart at the current time leaves, armed at frequency f
RestartedTimers(f) ==
  {[id |-> intervalId', period |-> f * 1000, due |-> DateNow + f * 1000]}

\* the text "{}"
EmptyObjectText == Text(<<LBrace, RBrace>>)

\* the persisted text has a member k
HasStored(k) ==
  /\ stored.kind = "text"
  /\ \E i \in 1..Len(stored.toks) : stored.toks[i].t = "member" /\ stored.toks[i].k = k

\* the value of member k of the persisted text
StoredMember(k) ==
  LET i == CHOOSE j \in 1..Len(stored.toks) : stored.toks[j].t = "member" /\ stored.toks[j].k = k
  IN stored.toks[i].v

\* a remote write resolves in this step, successfully or not
WriteOkStep == \E i \in 1..Len(writes) : writes[i].status = "pending" /\ writes'[i].status = "ok"
WriteFailStep == \E i \in 1..Len(writes) : writes[i].status = "pending" /\ writes'[i].status = "failed"
\* setPreferences is called in this step
SetPreferencesStep == Len(writes') > Len(writes)

\* C1: once the script body has completed, and after any number of
\* refreshList() calls, exactly one repeating timer is active, and it is the
\* one intervalId names: a restart cancels the old timer before arming the new.
C1_ExactlyOneTimer ==
  phase = "running" =>
    /\ Cardinality(timers) = 1
    /\ \A t \in timers : t.id = intervalId

\* C1 witness: two settings writes succeeded, so refreshList has run twice
\* since startup, and one timer is active.
C1_Witness ==
  /\ phase = "running"
  /\ Len(writes) = 2 /\ writes[1].status = "ok" /\ writes[2].status = "ok"
  /\ Cardinality(timers) = 1

\* C2: on a hidden-to-visible transition the listener issues a query and
\* re-arms the timer in that same step if the time since lastCheckedTime
\* exceeds the current frequency; otherwise it issues no query and leaves the
\* timer as it is.
C2_VisibleRecovery ==
  [][(phase = "running" /\ hidden /\ ~hidden') =>
       IF DateNow - lastCheckedTime > CurrentFrequency * 1000
       THEN /\ nextReq' = nextReq + 1
            /\ requests' = requests \cup {[id |-> nextReq, initial |-> FALSE]}
            /\ lastCheckedTime' = DateNow
            /\ timers' = RestartedTimers(CurrentFrequency)
       ELSE UNCHANGED <<requests, nextReq, lastCheckedTime, timers, intervalId>>]_vars

\* C2 witness: the only settings write failed, so nothing but the listener
\* can have re-armed the timer since startup, and the timer runs at the saved
\* frequency, not at the one startup armed it with.
C2_Witness ==
  /\ phase = "running" /\ ~hidden /\ now > StartTime
  /\ Len(writes) = 1 /\ writes[1].status = "failed"
  /\ lastCheckedTime = DateNow
  /\ \E t \in timers : t.period = 30000 /\ t.due = DateNow + t.period

\* a step that calls populateList from the timer, from refreshList after a
\* settings write, or from the script body
PollStep ==
  \/ Startup
  \/ \E t \in timers : Tick(t)
  \/ \E i \in 1..Len(writes) : WriteDone(i)

\* C3: a poll that runs while the surface is hidden issues no query and leaves
\* lastCheckedTime, the list and its pending marker alone; no query is ever
\* issued while the surface is hidden.
C3_HiddenPollIsNoop ==
  [][/\ (hidden /\ PollStep) =>
          UNCHANGED <<requests, nextReq, lastCheckedTime, list, pending>>
     /\ (nextReq' # nextReq \/ ~(requests' \subseteq requests)) => ~hidden']_vars

\* C3 witness: the surface is hidden, a timer fired or was re-armed at the
\* present time, and the last query is older than that.
C3_Witness ==
  /\ phase = "running" /\ hidden /\ now > StartTime
  /\ \E t \in timers : t.due = DateNow + t.period
  /\ lastCheckedTime < DateNow /\ lastCheckedTime > 0

\* C4 as claimed: the list never changes while the surface is hidden.
C4_NeverRenderedWhileHidden == [][hidden => list' = list]_vars

\* C4 amended: while the surface is hidden the list changes only when a fetch
\* that is in flight resolves, and a fetch is only ever issued while the
\* surface is visible.
C4_HiddenRenderOnlyOfEarlierFetch ==
  [][/\ (hidden /\ list' # list) => \E r \in requests : r \notin requests'
     /\ ~(requests' \subseteq requests) => ~hidden']_vars

\* C4 witness: the surface is hidden with a fetch in flight, issued while it
\* was visible; its resolution renders.
C4_Witness == phase = "running" /\ hidden /\ requests # {}

\* C5: for a parseable persisted option, getPreferences( override ) returns
\* an object with all six fields, each the override's value if the override
\* has the field, else the persisted value if storage has it, else the
\* default; the call changes neither the configuration, the stored option
\* nor the override.
C5_LayeredTotal ==
  /\ [](ret.called /\ stored \in ParseableStored =>
          /\ ret.result.ok
          /\ DOMAIN ret.result.val = Fields
          /\ \A k \in Fields :
               ret.result.val[k] =
                 IF k \in DOMAIN newPrefs THEN newPrefs[k]
                 ELSE IF HasStored(k) THEN StoredMember(k)
                 ELSE SiteDefaults(conf)[k])
  /\ [][ret' # ret => UNCHANGED <<conf, stored, newPrefs>>]_vars

\* C5 witness: a call whose result takes a field from each layer.
C5_Witness ==
  /\ ret.called /\ ret.result.ok
  /\ "frequency" \in DOMAIN newPrefs /\ HasStored("frequency")
  /\ "quantity" \notin DOMAIN newPrefs /\ HasStored("quantity")
  /\ "origin" \notin DOMAIN newPrefs /\ ~HasStored("origin")
  /\ ret.result.val.frequency = newPrefs.frequency
  /\ ret.result.val.quantity = 20

\* C6 as claimed: getPreferences never throws, and an absent or unparseable
\* persisted option gives the defaults overlaid with the override.
C6_NeverThrows ==
  ret.called =>
    /\ ret.result.ok
    /\ (stored = NullValue \/ stored \in MalformedStored) =>
         ret.result.val = ObjectAssign(SiteDefaults(conf), newPrefs)

\* C7: the reset action leaves "{}" as the stored option, and getPreferences()
\* then returns exactly the site's default preferences.
C7_ResetGivesDefaults ==
  [][ActionProcess("reset") =>
       /\ stored' = EmptyObjectText
       /\ getPreferencesOf(conf', stored', EmptyObj) = [ok |-> TRUE, val |-> SiteDefaults(conf')]]_vars

\* C7 witness: a reset made while the save before it is still pending, with
\* a patch pending in the dialog.
C7_Witness ==
  /\ Len(writes) = 2
  /\ writes[1].status = "pending" /\ writes[1].optionvalue # EmptyObjectText
  /\ writes[2].status = "pending" /\ writes[2].optionvalue = EmptyObjectText
  /\ stored = EmptyObjectText
  /\ newPrefs # EmptyObj

\* C8: the step in which a settings write succeeds cancels the old timer,
\* attempts one poll and arms one timer at the frequency then in effect; the
\* step that issues the write restarts nothing.
C8_RestartAfterWrite ==
  [][/\ WriteOkStep =>
          /\ timers' = RestartedTimers(CurrentFrequency)
          /\ hidden => UNCHANGED <<requests, nextReq, lastCheckedTime>>
          /\ ~hidden => /\ requests' = requests \cup {[id |-> nextReq, initial |-> FALSE]}
                        /\ nextReq' = nextReq + 1
                        /\ lastCheckedTime' = DateNow
     /\ SetPreferencesStep =>
          UNCHANGED <<timers, intervalId, requests, nextReq, lastCheckedTime>>]_vars

\* C8 witness: a write has succeeded and the timer runs at the saved frequency.
C8_Witness ==
  /\ \E i \in 1..Len(writes) : writes[i].status = "ok"
  /\ \E t \in timers : t.period = 30000 /\ t.id = intervalId

\* C9: the step in which a settings write fails raises one error notification
\* and changes neither the timers, intervalId, lastCheckedTime nor the
\* queries in flight; nor does the step that issued the write.
C9_FailureKeepsPollState ==
  [][/\ WriteFailStep =>
          /\ notifications' = notifications + 1
          /\ UNCHANGED <<timers, intervalId, lastCheckedTime, requests, nextReq>>
     /\ SetPreferencesStep =>
          UNCHANGED <<timers, intervalId, lastCheckedTime, requests, nextReq,
                      notifications>>]_vars

\* C9 witness: a write has failed, the notification is up, the timer is armed.
C9_Witness ==
  /\ \E i \in 1..Len(writes) : writes[i].status = "failed"
  /\ notifications >= 1
  /\ Cardinality(timers) = 1

\* C10: the step that calls setPreferences stores the very value it posts,
\* so while the last write is pending the stored option is its value; the
\* step in which a write fails leaves the stored option, and so what
\* getPreferences() returns, as the attempt set it.
C10_LocalWriteStays ==
  /\ [](Len(writes) > 0 /\ writes[Len(writes)].status = "pending" =>
          /\ stored = writes[Len(writes)].optionvalue
          /\ stored.kind = "text")
  /\ [][/\ SetPreferencesStep =>
             /\ stored' = writes'[Len(writes')].optionvalue
             /\ writes'[Len(writes')].status = "pending"
        /\ WriteFailStep =>
             /\ stored' = stored
             /\ getPreferencesOf(conf', stored', EmptyObj) = getPreferences(EmptyObj)]_vars

\* C10 witness: the only save failed remotely and getPreferences() returns the
\* frequency it tried to save.
C10_Witness ==
  /\ Len(writes) = 1
  /\ writes[1].status = "failed"
  /\ getPreferences(EmptyObj).ok
  /\ getPreferences(EmptyObj).val.frequency = 30

\* the object the persisted option st holds (none when absent)
PersistedObject(st) == IF st.kind = "null" THEN EmptyObj ELSE JSONparse(st).val

\* C11 as claimed: the save action leaves in storage exactly the fields that
\* were persisted before plus the fields of the patch, the patch's values
\* winning; a field the user never set stays absent.
C11_SaveKeepsUnsetFieldsAbsent ==
  [][(ActionProcess("save") /\ getPreferences(newPrefs).ok) =>
       /\ JSONparse(stored').ok
       /\ PersistedObject(stored') = ObjectAssign(PersistedObject(stored), newPrefs)]_vars

\* the fetch of some query resolves with an empty change list in this step
EmptyFetchDoneStep == \E r \in requests : FetchDone(r, 0)

\* C12 as claimed: when the render of an empty fetch completes, the list
\* holds exactly one placeholder and no data entry, for the initial poll as
\* for a refresh, in every order of resolution.
C12_EmptyRenderIsOnePlaceholder ==
  [][EmptyFetchDoneStep => (Len(list') = 1 /\ list'[1].kind = "empty")]_vars

\* the list shows one batch: nothing, one placeholder, or the changes of one query
OneSnapshot(l) ==
  \/ l = <<>>
  \/ Len(l) = 1 /\ l[1].kind = "empty"
  \/ \A i \in 1..Len(l) : l[i] = Entry(l[1].poll, i)

\* C15 as claimed: in every state the list is empty, one placeholder, or the
\* entries of one single fetched batch; it never holds entries of two polls.
C15_ListIsOneSnapshot == OneSnapshot(list)

\* the classes of the entry the direct call built
HasClass(c) == \E i \in 1..Len(ret.result.classes) : ret.result.classes[i] = c

\* C13 as claimed: the rendered entry is large iff |newSize - oldSize| >= 500,
\* whatever the sign, positive iff the delta is > 0, negative iff it is < 0.
C13_LargeIffMagnitude500 ==
  ret.called =>
    LET delta == arg.data.newlen - arg.data.oldlen IN
    /\ HasClass("userjs-rcp-diff-large") <=> (delta >= 500 \/ delta <= 0 - 500)
    /\ HasClass("userjs-rcp-diff-positive") <=> delta > 0
    /\ HasClass("userjs-rcp-diff-negative") <=> delta < 0

\* the elements of a sequence
Range(a) == {a[i] : i \in 1..Len(a)}

\* the key of the namespace restriction in the request built for arg.prefs
NamespaceKey == getApiListType(arg.prefs.origin).prefix \o "namespace"

\* C14: with namespace 'noncontent' the request's namespace restriction is, as
\* a set, the index's values minus the content namespaces, and lists no
\* identifier twice, whatever the index repeats; with 'content' it is
\* wgContentNamespaces itself; with 'all' the request has no restriction.
C14_NamespaceRestriction ==
  ret.called =>
    LET q == ret.result
        A == Range(ObjectValues(mwConfig.wgNamespaceIds))
        C == Range(mwConfig.wgContentNamespaces)
    IN /\ arg.prefs.namespace = "noncontent" =>
            /\ NamespaceKey \in DOMAIN q
            /\ Range(q[NamespaceKey]) = A \ C
            /\ \A i, j \in 1..Len(q[NamespaceKey]) :
                 q[NamespaceKey][i] = q[NamespaceKey][j] => i = j
       /\ arg.prefs.namespace = "content" =>
            /\ NamespaceKey \in DOMAIN q
            /\ q[NamespaceKey] = mwConfig.wgContentNamespaces
       /\ arg.prefs.namespace = "all" =>
            /\ "rcnamespace" \notin DOMAIN q
            /\ "wlnamespace" \notin DOMAIN q

\* C14 witness: a watchlist query for the non-content namespaces of an index
\* that repeats identifiers, one of them a non-content one.
C14_Witness ==
  /\ ret.called
  /\ arg.prefs.namespace = "noncontent" /\ arg.prefs.origin = "watchlist"
  /\ mwConfig.wgNamespaceIds = NamespaceIds
  /\ mwConfig.wgContentNamespaces = <<0, 4, 6>>
  /\ ret.result["wlnamespace"] = <<-2, -1, 1, 5, 7>>

\* C16: a query leaves the set of queries in flight only by resolving, one per
\* step and never in a step that polls or re-arms the timer; and when it
\* resolves its render is applied whatever other queries are in flight, so
\* for a later poll's query the list becomes exactly its batch even if a
\* query issued after it has already rendered.
C16_LastResolvedWins ==
  [][\A r \in requests : r \notin requests' =>
       /\ requests' = requests \ {r}
       /\ UNCHANGED <<nextReq, lastCheckedTime, timers, intervalId>>
       /\ \/ list' = list /\ pending' = pending
          \/ \E n \in 0..MaxBatch :
               /\ list' = Render(r, n).list
               /\ ~r.initial => (\A i \in 1..Len(list') : list'[i].poll = r.id)]_vars

\* C16 witness: two polls overlap and the later-issued one has resolved and
\* rendered first; the earlier-issued query is still in flight and will
\* replace the list with its older batch.
C16_Witness ==
  /\ [id |-> 1, initial |-> FALSE] \in requests
  /\ nextReq = 3
  /\ list # <<>>
  /\ \A i \in 1..Len(list) : list[i].poll = 2

\* the fetch of some query fails in this step
FetchFailStep == \E r \in requests : FetchFail(r)

\* C17 as claimed: once a failed fetch has been handled the list is as it was
\* before the poll began, entries and pending marker alike: with no other
\* query in flight the marker is off; the handler issues no query.
C17_FailureLeavesListAsBefore ==
  [][FetchFailStep =>
       /\ list' = list
       /\ nextReq' = nextReq
       /\ requests' = {} => ~pending']_vars

\* C18 as claimed: in every state after startup a repeating timer is armed,
\* whatever fetches and settings writes have failed and whether the persisted
\* settings were absent or malformed.
C18_TimerAlwaysArmed == phase # "init" => timers # {}

\* no settings write awaits its remote result
NoWritePending == \A i \in 1..Len(writes) : writes[i].status # "pending"

\* every settings write issued so far has succeeded remotely
AllWritesOk == \A i \in 1..Len(writes) : writes[i].status = "ok"

\* every armed timer runs at the frequency getPreferences() returns now
PeriodIsCurrentFrequency ==
  getPreferences(EmptyObj).ok /\ \A t \in timers : t.period = CurrentFrequency * 1000

\* C19 as claimed: whenever a timer is armed and no settings write awaits its
\* remote result, the timer's period is the current frequency.
C19_PeriodFollowsFrequency ==
  (timers # {} /\ NoWritePending) => PeriodIsCurrentFrequency

\* C19 amended: whenever a timer is armed and every settings write issued so
\* far has succeeded, the timer's period is the current frequency.
C19_PeriodFollowsSavedFrequency ==
  (timers # {} /\ AllWritesOk) => PeriodIsCurrentFrequency

\* C19 witness: two settings writes have succeeded, frequency 30 is what
\* storage holds, and the timer runs at 30 s.
C19_Witness ==
  /\ Len(writes) = 2 /\ AllWritesOk
  /\ timers # {}
  /\ getPreferences(EmptyObj).ok /\ CurrentFrequency = 30
  /\ \A t \in timers : t.period = 30000

\* the value v is one the widget of field f accepts
ValidChoice(f, v) ==
  CASE f = "quantity" -> v >= 1 /\ v <= 20
    [] f = "frequency" -> v >= 30 /\ v <= 600
    [] OTHER -> TRUE

\* C20 as claimed: every edit of a widget leaves in the patch the value the
\* user chose if it is valid, for all six fields and so for newOnly switched
\* off as well as on, and leaves the patch alone otherwise; the patch never
\* holds a quantity outside 1..20 or a frequency outside 30..600.
C20_PatchHoldsLastChoice ==
  /\ [](/\ "quantity" \in DOMAIN newPrefs => ValidChoice("quantity", newPrefs.quantity)
        /\ "frequency" \in DOMAIN newPrefs => ValidChoice("frequency", newPrefs.frequency))
  /\ [][\A f \in Fields : \A v \in DialogInputs(f) :
          DialogChange(f, v) =>
            newPrefs' = IF ValidChoice(f, v) THEN ObjectAssign(newPrefs, f :> v)
                        ELSE newPrefs]_vars

====
